---- MODULE Spec2Model ----
(***************************************************************************)
(* A model of Board (src/Board.js): capability discovery, the two         *)
(* periodic poll loops, the digital decoder, the analogue calibration     *)
(* chain, the state store with its 'update' notifications, and the        *)
(* set / _writeCoil retry chain.                                          *)
(*                                                                         *)
(* Node runs every callback to completion, so each action below is one    *)
(* callback: the connect callback, one setInterval tick, one promise       *)
(* handler, one setTimeout callback, or one synchronous call of the       *)
(* public API.  Time is not modelled: any pending timer or promise may    *)
(* fire next.                                                              *)
(***************************************************************************)
EXTENDS Integers, Sequences, FiniteSets, TLC

\* ---------------------------------------------------------------- bounds
MaxPending == 1     \* outstanding reads of one kind before a tick is held back
MaxSets == 1        \* calls of set() that start a retry chain in one run
MaxChains == 2      \* calibration chains in flight
MaxOverlap == 2     \* outstanding reads of one kind where ticks may overtake answers
MaxRivals == 2      \* calls of set() on one id whose retry chains run side by side

\* ---------------------------------------------------------------- inputs
\* config.id: the main board (0) and an extension board.
BoardIds == {0, 15}
\* config.groups
GroupCounts == {1, 2}
\* Capability words answered by register 1001 + 100 i.
\* 1026 = 0b0000010000000010, 4353 = 0b0001000100000001.
CapWords == {1026, 4353}
\* data.data of a read of the DI and DO words of a group.
DiDoData == {<<0, 0>>, <<1, 2>>, <<32770, 3>>}
\* data.data[0] of a read of the LED word.
LedWords == {0, 5}
\* The values handed to set(): false / 0 and true / 1.
SetValues == {0, 1}

\* ------------------------------------------------------- javascript values
\* `undefined`: what this.state[id] yields for a key that was never stored.
Undefined == -2
\* NaN: what parseInt(undefined) yields.
NaN == -1

\* a !== b on numbers and undefined (NaN is unequal to everything).
StrictNeq(a, b) == a = NaN \/ b = NaN \/ a # b

\* a != b where a is a stored number or undefined and b the number (or the
\* boolean, which != converts to 0 / 1) handed to set().
LooseNeq(a, b) == a = NaN \/ a # b

\* value.toString(): the string that denotes the number n.
ToStr(n) == [t |-> "string", of |-> n]

\* ------------------------------------------------------------------- ids
\* The key  prefix + group + '.' + num , e.g. 'DI1.3'.
KeyOfGroupOne(prefix, group, num) == [prefix |-> prefix, group |-> 1, num |-> num]

Key(prefix, group, num) == [prefix |-> prefix, group |-> group, num |-> num]
\* The bare number `id` that storeAnalogueState receives as its third argument.
NumKey(num) == [prefix |-> "", group |-> 0, num |-> num]

\* -------------------------------------------------------------- dec2bin
RECURSIVE toString2(_)
\* n.toString(2): the binary digits of n, most significant first.
toString2(n) == IF n < 2 THEN <<n>> ELSE toString2(n \div 2) \o <<n % 2>>

Zeros16 == [i \in 1..16 |-> 0]

\* ('0000000000000000' + bin).slice(-16)
dec2bin(dec) ==
    LET s == Zeros16 \o toString2(dec)
    IN  SubSeq(s, Len(s) - 15, Len(s))

\* The same without the reversal: the digits stay most significant first.
reverseForgotten(s) == s

\* bin.split('').reverse()
reverse(s) == [i \in 1..Len(s) |-> s[Len(s) + 1 - i]]

RECURSIVE parseInt2(_)
\* parseInt(s, 2) of a string of binary digits.
parseInt2(s) ==
    IF Len(s) = 0 THEN 0
    ELSE 2 * parseInt2(SubSeq(s, 1, Len(s) - 1)) + s[Len(s)]

\* bin.slice(a, b) with 0-based a, exclusive b.
slice(s, a, b) == SubSeq(s, a + 1, b)

\* parseInt(arr[i]) for the 0-based index i: arr[i] is undefined past the end.
parseIntAt(arr, i) == IF i < Len(arr) THEN arr[i + 1] ELSE NaN

\* ------------------------------------------------------------ state store
EmptyStore == [k \in {} |-> 0]

\* The same with a default: `this.state[id] || 0`.
getStateOrZero(st, id) == IF id \in DOMAIN st /\ st[id] # NaN THEN st[id] ELSE 0

\* getState(id): this.state[id] (Board.js:164-166).
getState(st, id) == IF id \in DOMAIN st THEN st[id] ELSE Undefined

\* The store replaced by the one entry.
PutAlone(st, id, v) == [k \in {id} |-> v]

Put(st, id, v) == [k \in DOMAIN st \cup {id} |-> IF k = id THEN v ELSE st[k]]

\* The same without the test: the first sample is announced too.
HadValueOrNot(currentValue) == TRUE

\* The condition under which a changed value is announced (Board.js:305).
HadValue(currentValue) == currentValue # Undefined

\* What the listeners of the events emitted so far have read: absent from acc
\* until the first event.
Heard(acc) == IF "heard" \in DOMAIN acc THEN acc.heard ELSE <<>>

\* The same iteration with the event emitted before the value is stored.
StoreBitEmitFirst(acc, prefix, group, arr, i) ==
    LET id == Key(prefix, group, i + 1)
        value == parseIntAt(arr, i)
        currentValue == getState(acc.state, id)
    IN  IF StrictNeq(currentValue, value)
        THEN [state |-> Put(acc.state, id, value),
              emits |-> IF HadValue(currentValue)
                        THEN Append(acc.emits, <<id, ToStr(value)>>)
                        ELSE acc.emits,
              heard |-> IF HadValue(currentValue)
                        THEN Append(Heard(acc), getState(acc.state, id))
                        ELSE Heard(acc)]
        ELSE acc

\* One iteration of the loop of storeDigitalState (Board.js:300-308); acc is
\* [state, emits, heard]: the assignment comes first, so a listener that calls
\* getState(id) while the event is emitted reads the store after it.
StoreBit(acc, prefix, group, arr, i) ==
    LET id == Key(prefix, group, i + 1)
        value == parseIntAt(arr, i)
        currentValue == getState(acc.state, id)
    IN  IF StrictNeq(currentValue, value)
        THEN [state |-> Put(acc.state, id, value),
              emits |-> IF HadValue(currentValue)
                        THEN Append(acc.emits, <<id, ToStr(value)>>)
                        ELSE acc.emits,
              heard |-> IF HadValue(currentValue)
                        THEN Append(Heard(acc), getState(Put(acc.state, id, value), id))
                        ELSE Heard(acc)]
        ELSE acc

RECURSIVE StoreBits(_, _, _, _, _, _)
\* for (let i = 0; i < length; i++): the iterations from i on.
StoreBits(acc, prefix, group, arr, i, length) ==
    IF i < length
    THEN LET after == {StoreBit(acc, prefix, group, arr, i)}
         IN  CHOOSE out \in {StoreBits(a, prefix, group, arr, i + 1, length) : a \in after} : TRUE
    ELSE acc

\* The default of the parameter `length`, used when the argument is undefined.
DefaultLength(length) == IF length = Undefined THEN 16 ELSE length

\* storeDigitalState(prefix + group, value, length) applied to acc = [state, emits].
storeDigitalState(acc, prefix, group, value, length) ==
    StoreBits(acc, prefix, group, reverse(dec2bin(value)), 0, DefaultLength(length))

\* ------------------------------------------------------------- variables
VARIABLES
    boardId,     \* config.id
    nGroups,     \* config.groups
    connected,   \* the connect callback has run
    crashed,     \* an exception escaped a timer callback: the process is gone
    discovery,   \* indices i whose capability read is outstanding
    groups,      \* this.groups: index i -> group object; holes are not in the domain
    state,       \* this.state
    counter,     \* this.counter
    reads,       \* outstanding readHoldingRegisters calls of the poll loops, per kind
    chains,      \* calibration chains of storeAnalogueState whose next read is outstanding
    timers,      \* pending setTimeout callbacks of _writeCoil
    promise,     \* per call of set(): how the promise of its latest write stands
    wcount,      \* per call of set(): writeCoil calls of its retry chain so far
    step,        \* the callback or API call that ran last, with its arguments
    emits,       \* 'update' events emitted by it, in order
    writes,      \* transport writes issued by it, in order
    issued,      \* transport reads issued by it, in order
    raised,      \* the exception it threw, or "none"
    lastWrite,   \* coil address -> the value of the last writeCoil issued to it
    heard        \* per event of emits: what getState(id) returns to a listener of it

vars == <<boardId, nGroups, connected, crashed, discovery, groups, state, counter,
          reads, chains, timers, promise, wcount, step, emits, writes, issued, raised,
          lastWrite, heard>>

cfgVars == <<boardId, nGroups>>

Rd(kind, g) == [kind |-> kind, g |-> g]
ReadKinds == {Rd(k, g) : k \in {"dido", "count"}, g \in 1..3} \cup {Rd("led", 1), Rd("raw", 1)}

NoKey == Key("", 0, 0)
Step(op, key, val, data) == [op |-> op, key |-> key, val |-> val, data |-> data]

\* this.groups.length
GroupsLength(gs) == IF DOMAIN gs = {} THEN 0
                    ELSE CHOOSE n \in 1..3 : (n - 1) \in DOMAIN gs /\ \A j \in DOMAIN gs : j < n

\* The state the constructor leaves behind (Board.js:51-92): empty stores, no
\* group, the connection not yet established.
InitWith(ids, counts) ==
    /\ boardId \in ids
    /\ nGroups \in counts
    /\ connected = FALSE
    /\ crashed = FALSE
    /\ discovery = {}
    /\ groups = [i \in {} |-> 0]
    /\ state = EmptyStore
    /\ counter = EmptyStore
    /\ reads = [k \in ReadKinds |-> 0]
    /\ chains = <<>>
    /\ timers = {}
    /\ promise = <<>>
    /\ wcount = <<>>
    /\ step = Step("new", NoKey, 0, <<>>)
    /\ emits = <<>>
    /\ heard = <<>>
    /\ writes = <<>>
    /\ issued = <<>>
    /\ raised = "none"
    /\ lastWrite = EmptyStore

Init == InitWith(BoardIds, GroupCounts)

\* ------------------------------------------------------------- lifecycle
\* The connect callback (Board.js:94-143): one capability read per group, then
\* the two interval timers are started.
Connect ==
    /\ ~connected /\ ~crashed
    /\ connected' = TRUE
    /\ discovery' = 0..(nGroups - 1)
    /\ step' = Step("connect", NoKey, 0, <<>>)
    /\ emits' = <<>> /\ heard' = <<>> /\ writes' = <<>> /\ issued' = <<>> /\ raised' = "none"
    /\ UNCHANGED <<cfgVars, lastWrite, crashed, groups, state, counter, reads, chains, timers, promise, wcount>>

\* 'di' taken from the other byte.
GroupDiLowByte(bin) == parseInt2(slice(bin, 8, 16))

\* 'di' of a group: parseInt(bin.slice(0, 8), 2)  (Board.js:112)
GroupDi(bin) == parseInt2(slice(bin, 0, 8))
\* 'do' of a group: parseInt(bin.slice(8, 16), 2)  (Board.js:113)
GroupDo(bin) == parseInt2(slice(bin, 8, 16))

\* The group object built from the first capability word (Board.js:104-124).
GroupOf(bid, i, word) ==
    LET bin == dec2bin(word)
        main == bid = 0 /\ i = 0
    IN  [id |-> i + 1,
         di |-> GroupDi(bin),
         do |-> GroupDo(bin),
         led |-> IF main THEN 4 ELSE Undefined,
         ai |-> IF main THEN 1 ELSE Undefined,
         ao |-> IF main THEN 1 ELSE Undefined]

\* .then of the capability read of group index i (Board.js:103-125).
DiscoverOk(i, word) ==
    /\ ~crashed /\ i \in discovery
    /\ discovery' = discovery \ {i}
    /\ groups' = [j \in DOMAIN groups \cup {i} |->
                     IF j = i THEN GroupOf(boardId, i, word) ELSE groups[j]]
    /\ step' = Step("discoverOk", NoKey, i, <<word>>)
    /\ emits' = <<>> /\ heard' = <<>> /\ writes' = <<>> /\ issued' = <<>> /\ raised' = "none"
    /\ UNCHANGED <<cfgVars, lastWrite, connected, crashed, state, counter, reads, chains, timers, promise, wcount>>

\* .catch of the capability read of group index i (Board.js:126-130): logs.
DiscoverFail(i) ==
    /\ ~crashed /\ i \in discovery
    /\ discovery' = discovery \ {i}
    /\ step' = Step("discoverFail", NoKey, i, <<>>)
    /\ emits' = <<>> /\ heard' = <<>> /\ writes' = <<>> /\ issued' = <<>> /\ raised' = "none"
    /\ UNCHANGED <<cfgVars, lastWrite, connected, crashed, groups, state, counter, reads, chains, timers, promise, wcount>>

\* ------------------------------------------------------------ state poll
\* Indices the loop `for (i = 0; i < this.groups.length; i++)` visits before it
\* ends or reads a property of a hole.
Visited(gs) == {i \in 0..(GroupsLength(gs) - 1) : \A j \in 0..i : j \in DOMAIN gs}
\* The loop reaches an index that holds no group object.
HitsHole(gs) == \E i \in 0..(GroupsLength(gs) - 1) : i \notin DOMAIN gs

\* Reads of one pass of the loop body of updateState (Board.js:419-456).
StateReadsOf(group) ==
    <<Rd("dido", group.id)>> \o
    (IF group.id = 1 THEN <<Rd("led", 1)>> ELSE <<>>) \o
    (IF group.id = 1 THEN <<Rd("raw", 1)>> ELSE <<>>)

RECURSIVE StateReads(_, _)
StateReads(gs, i) ==
    IF i \in Visited(gs) THEN StateReadsOf(gs[i]) \o StateReads(gs, i + 1) ELSE <<>>

Count(seq, x) == Cardinality({n \in 1..Len(seq) : seq[n] = x})

\* One firing of the updateState interval (Board.js:134-136, 417-458), with at
\* most `most` reads of a kind outstanding after it.
StateTickWithin(most) ==
    /\ connected /\ ~crashed
    /\ LET rs == StateReads(groups, 0)
       IN  /\ \A k \in ReadKinds : reads[k] + Count(rs, k) <= most
           /\ reads' = [k \in ReadKinds |-> reads[k] + Count(rs, k)]
           /\ issued' = rs
    /\ crashed' = HitsHole(groups)
    /\ raised' = IF HitsHole(groups) THEN "TypeError" ELSE "none"
    /\ step' = Step("stateTick", NoKey, 0, <<>>)
    /\ emits' = <<>> /\ heard' = <<>> /\ writes' = <<>>
    /\ UNCHANGED <<cfgVars, lastWrite, connected, discovery, groups, state, counter, timers, promise, wcount, chains>>

StateTick == StateTickWithin(MaxPending)

\* The answer to one read settles every outstanding read.
DoneAll(k) == [j \in ReadKinds |-> 0]

\* One outstanding read of kind k has been answered.
Done(k) == [reads EXCEPT ![k] = @ - 1]

\* The two calls in the .then of the DI/DO read of a group (Board.js:424-425).
storeDiDo(acc, group, data) ==
    storeDigitalState(storeDigitalState(acc, "DI", group.id, data[1], group.di),
                      "DO", group.id, data[2], group.do)

\* .then of the DI/DO read of group g (Board.js:423-426).
DiDoOk(g, data) ==
    /\ ~crashed /\ reads[Rd("dido", g)] > 0
    /\ LET b == storeDiDo([state |-> state, emits |-> <<>>], groups[g - 1], data)
       IN  state' = b.state /\ emits' = b.emits /\ heard' = Heard(b)
    /\ reads' = Done(Rd("dido", g))
    /\ step' = Step("didoOk", NoKey, g, data)
    /\ writes' = <<>> /\ issued' = <<>> /\ raised' = "none"
    /\ UNCHANGED <<cfgVars, lastWrite, connected, crashed, discovery, groups, counter, timers, promise, wcount, chains>>

\* .then of the LED read (Board.js:435-437).
LedOk(word) ==
    /\ ~crashed /\ reads[Rd("led", 1)] > 0
    /\ LET group == groups[0]
           a == storeDigitalState([state |-> state, emits |-> <<>>], "LED", group.id, word, group.led)
       IN  state' = a.state /\ emits' = a.emits /\ heard' = Heard(a)
    /\ reads' = Done(Rd("led", 1))
    /\ step' = Step("ledOk", NoKey, 1, <<word>>)
    /\ writes' = <<>> /\ issued' = <<>> /\ raised' = "none"
    /\ UNCHANGED <<cfgVars, lastWrite, connected, crashed, discovery, groups, counter, timers, promise, wcount, chains>>

\* .catch of a read of a poll loop (Board.js:427-431, 438-442, 451-455, 478-482): logs.
ReadFail(k) ==
    /\ ~crashed /\ reads[k] > 0
    /\ reads' = Done(k)
    /\ step' = Step("readFail", Key(k.kind, k.g, 0), 0, <<>>)
    /\ emits' = <<>> /\ heard' = <<>> /\ writes' = <<>> /\ issued' = <<>> /\ raised' = "none"
    /\ UNCHANGED <<cfgVars, lastWrite, connected, crashed, discovery, groups, state, counter, timers, promise, wcount, chains>>

\* ---------------------------------------------------------- counter poll
\* let countStart = [8, 103, 203]  (Board.js:465)
countStart == <<8, 103, 203>>

\* Reads of updateCount (Board.js:467-470): one per group the loop visits.
RECURSIVE CountReads(_, _)
CountReads(gs, i) ==
    IF i \in Visited(gs) THEN <<Rd("count", gs[i].id)>> \o CountReads(gs, i + 1) ELSE <<>>

\* One firing of the updateCount interval (Board.js:139-141, 463-484).
CountTick ==
    /\ connected /\ ~crashed
    /\ LET rs == CountReads(groups, 0)
       IN  /\ \A k \in ReadKinds : reads[k] + Count(rs, k) <= MaxPending
           /\ reads' = [k \in ReadKinds |-> reads[k] + Count(rs, k)]
           /\ issued' = rs
    /\ crashed' = HitsHole(groups)
    /\ raised' = IF HitsHole(groups) THEN "TypeError" ELSE "none"
    /\ step' = Step("countTick", NoKey, 0, <<>>)
    /\ emits' = <<>> /\ heard' = <<>> /\ writes' = <<>>
    /\ UNCHANGED <<cfgVars, lastWrite, connected, discovery, groups, state, counter, timers, promise, wcount, chains>>

\* data.data[i] of an answer: undefined beyond its end.
WordAt(data, i) == IF i < Len(data) THEN data[i + 1] ELSE Undefined

\* a + b of two words; undefined + anything is NaN.
Plus(a, b) == IF a = Undefined \/ b = Undefined \/ a = NaN \/ b = NaN THEN NaN ELSE a + b

\* The counter taken from its first word alone.
CounterFirstWord(data, j) == WordAt(data, j * 2)

\* data.data[j * 2] + data.data[j * 2 + 1]  (Board.js:475), j counted from 0.
CounterOf(data, j) == Plus(WordAt(data, j * 2), WordAt(data, j * 2 + 1))

\* The loop of the .then of a counter read (Board.js:472-476).
StoreCounters(ct, group, data) ==
    [k \in DOMAIN ct \cup {Key("DI", group.id, j + 1) : j \in 0..(group.di - 1)} |->
        IF k.prefix = "DI" /\ k.group = group.id /\ k.num \in 1..group.di
        THEN CounterOf(data, k.num - 1)
        ELSE ct[k]]

\* .then of the counter read of group g (Board.js:471-477).
CountOk(g, data) ==
    /\ ~crashed /\ reads[Rd("count", g)] > 0
    /\ counter' = StoreCounters(counter, groups[g - 1], data)
    /\ reads' = Done(Rd("count", g))
    /\ step' = Step("countOk", NoKey, g, data)
    /\ emits' = <<>> /\ heard' = <<>> /\ writes' = <<>> /\ issued' = <<>> /\ raised' = "none"
    /\ UNCHANGED <<cfgVars, lastWrite, connected, crashed, discovery, groups, state, timers, promise, wcount, chains>>

\* getCount(id) as a function of the counter store (Board.js:174-176).
getCount(ct, id) == IF id \in DOMAIN ct THEN ct[id] ELSE Undefined

\* A call of getCount(id); `val` of the step is the value returned.
GetCount(id) ==
    /\ ~crashed
    /\ step' = Step("getCount", id, getCount(counter, id), <<>>)
    /\ emits' = <<>> /\ heard' = <<>> /\ writes' = <<>> /\ issued' = <<>> /\ raised' = "none"
    /\ UNCHANGED <<cfgVars, lastWrite, connected, crashed, discovery, groups, state, counter, reads, chains,
                   timers, promise, wcount>>

\* ------------------------------------------------------------ write path
\* The same with `=== null`, which undefined is not.
UnknownNull(st, id) == FALSE

\* validate(id) throws (Board.js:152-156).
Unknown(st, id) == getState(st, id) = Undefined

\* The same with the 1-based num taken as the offset.
CoilOfDoOneBased(group, num) == (group - 1) * 100 + num

\* coilId of a digital output (Board.js:207).
CoilOfDo(group, num) == (group - 1) * 100 + (num - 1)
\* The LED coils placed right after the output coils.
CoilOfLedAfterOutputs(gs, num) == gs[0].do + (num - 1)

\* coilId of a LED of group 1 (Board.js:210).
CoilOfLed(gs, num) == gs[0].do + gs[0].di + (num - 1)

\* The same with `retries <= 5`.
RetryAllowedOnceMore(retries) == retries <= 5

\* A verification after every attempt, without end.
RetryAllowedAlways(retries) == TRUE

\* `retries < 5`: a verification is scheduled after this attempt (Board.js:259).
RetryAllowed(retries) == retries < 5
\* The same delay after every attempt.
DelayFixed(retries) == 100

\* The delay of that verification in milliseconds (Board.js:266).
Delay(retries) == 100 * (retries + 1)

\* The verification never finds the write observed.
NeverObserved(st, id, value) == TRUE

\* The verification finds the write not yet observed (Board.js:261).
NotObserved(st, id, value) == LooseNeq(getState(st, id), value)

\* The write of the opposite value.
WriteCoilCallInverted(coilId, value) == [fn |-> "writeCoil", addr |-> coilId, value |-> 1 - value]

\* this.client.writeCoil(coilId, value)  (Board.js:249)
WriteCoilCall(coilId, value) == [fn |-> "writeCoil", addr |-> coilId, value |-> value]

\* The desired value is stored at once, ahead of the poll.
StoreDesired(st, id, value) == Put(st, id, value)

\* this.state after a call of _writeCoil: the call reads it and assigns nothing
\* (Board.js:248-268).
StoreAfterWrite(st, id, value) == st

\* _writeCoil(coilId, id, value, retries) as run for the chain c; `fired` is the set
\* holding the timer whose callback makes the call (Board.js:248-268).
writeCoil(c, coilId, id, value, retries, fired) ==
    /\ writes' = <<WriteCoilCall(coilId, value)>>
    /\ lastWrite' = Put(lastWrite, coilId, value)
    /\ state' = StoreAfterWrite(state, id, value)
    /\ wcount' = [n \in 1..(IF c > Len(wcount) THEN c ELSE Len(wcount)) |->
                     IF n = c THEN (IF c > Len(wcount) THEN 1 ELSE wcount[c] + 1) ELSE wcount[n]]
    /\ promise' = [n \in 1..(IF c > Len(promise) THEN c ELSE Len(promise)) |->
                     IF n = c THEN "pending" ELSE promise[n]]
    /\ timers' = (timers \ fired) \cup
                 (IF RetryAllowed(retries)
                  THEN {[chain |-> c, coilId |-> coilId, id |-> id, value |-> value,
                         retries |-> retries, delay |-> Delay(retries)]}
                  ELSE {})

\* The same without the two read-only branches.
SetBranchNoInputs(id) ==
    IF id.prefix \in {"DO", "DI", "AI"} THEN "do"
    ELSE IF id.prefix = "LED" /\ id.group = 1 THEN "led"
    ELSE IF id.prefix = "AO" THEN "ao"
    ELSE "none"

\* What set() does with a known id, by the type its parsing yields (Board.js:190-216).
SetBranch(id) ==
    IF id.prefix = "DI" THEN "di"
    ELSE IF id.prefix = "AI" THEN "ai"
    ELSE IF id.prefix = "DO" THEN "do"
    ELSE IF id.prefix = "LED" /\ id.group = 1 THEN "led"
    ELSE IF id.prefix = "AO" THEN "ao"
    ELSE "none"

\* set(id, value) (Board.js:187-217), as one of at most `most` calls that start a
\* retry chain.
SetWithin(most, id, value) ==
    /\ ~crashed
    /\ step' = Step("set", id, value, <<>>)
    /\ emits' = <<>> /\ heard' = <<>> /\ issued' = <<>>
    /\ IF Unknown(state, id)
       THEN /\ raised' = "SyntaxError"
            /\ writes' = <<>>
            /\ UNCHANGED <<state, timers, promise, wcount, lastWrite>>
       ELSE /\ raised' = "none"
            /\ CASE SetBranch(id) = "do" ->
                      /\ Len(wcount) < most
                      /\ writeCoil(Len(wcount) + 1, CoilOfDo(id.group, id.num), id, value, 0, {})
                 [] SetBranch(id) = "led" ->
                      /\ Len(wcount) < most
                      /\ writeCoil(Len(wcount) + 1, CoilOfLed(groups, id.num), id, value, 0, {})
                 [] OTHER ->
                      /\ writes' = <<>>
                      /\ UNCHANGED <<state, timers, promise, wcount, lastWrite>>
    /\ UNCHANGED <<cfgVars, connected, crashed, discovery, groups, counter, reads, chains>>

Set(id, value) == SetWithin(MaxSets, id, value)

\* The setTimeout callback of _writeCoil (Board.js:260-266).
RetryTimer(t) ==
    /\ ~crashed /\ t \in timers
    /\ step' = Step("retryTimer", t.id, t.value, <<t.chain, t.retries>>)
    /\ emits' = <<>> /\ heard' = <<>> /\ issued' = <<>> /\ raised' = "none"
    /\ IF NotObserved(state, t.id, t.value)
       THEN writeCoil(t.chain, t.coilId, t.id, t.value, t.retries + 1, {t})
       ELSE /\ timers' = timers \ {t}
            /\ writes' = <<>>
            /\ UNCHANGED <<state, promise, wcount, lastWrite>>
    /\ UNCHANGED <<cfgVars, connected, crashed, discovery, groups, counter, reads, chains>>

\* The promise of the latest writeCoil of chain c settles; a rejection runs the
\* .catch handler, which logs (Board.js:250-255).
WriteSettle(c, outcome) ==
    /\ ~crashed /\ c \in 1..Len(promise) /\ promise[c] = "pending"
    /\ promise' = [promise EXCEPT ![c] = outcome]
    /\ step' = Step("writeSettle", NoKey, c, <<>>)
    /\ emits' = <<>> /\ heard' = <<>> /\ writes' = <<>> /\ issued' = <<>> /\ raised' = "none"
    /\ UNCHANGED <<cfgVars, lastWrite, connected, crashed, discovery, groups, state, counter, reads, chains, timers, wcount>>

\* getState(id) (Board.js:164-166): returns this.state[id]; `val` of the step is
\* the value returned.
GetState(id) ==
    /\ ~crashed
    /\ step' = Step("getState", id, getState(state, id), <<>>)
    /\ emits' = <<>> /\ heard' = <<>> /\ writes' = <<>> /\ issued' = <<>> /\ raised' = "none"
    /\ UNCHANGED <<cfgVars, lastWrite, connected, crashed, discovery, groups, state, counter, reads, chains,
                   timers, promise, wcount>>

\* ------------------------------------------------------------ calibration
RECURSIVE Gcd(_, _)
Gcd(a, b) == IF b = 0 THEN a ELSE Gcd(b, a % b)

\* Fractions n / d of non-negative integers, kept in lowest terms.
Frac(n, d) == LET g == Gcd(n, d) IN [n |-> n \div g, d |-> d \div g]
Mul(x, y) == LET a == Frac(x.n, y.d) b == Frac(y.n, x.d) IN Frac(a.n * b.n, a.d * b.d)
Add(x, y) == LET g == Gcd(x.d, y.d) IN Frac(x.n * (y.d \div g) + y.n * (x.d \div g), x.d * (y.d \div g))

\* The factor of the voltage mode, whatever the mode.
ScaleOfVoltage(mode) == 3

\* The factor chosen by the mode (Board.js:379).
Scale(mode) == IF mode = 0 THEN 3 ELSE IF mode = 1 THEN 10 ELSE 1

\* math.round(x, 2), as a number of hundredths.
Round2(x) == LET h == Mul(x, Frac(100, 1)) IN (2 * h.n + h.d) \div (2 * h.d)

\* The calibrated value (Board.js:377-381), in hundredths; NaN when an operand
\* is no number or the quotient vref / vrefInt is not finite.
Calibrated(mode, vref, vrefInt, value, dev, offset) ==
    IF NaN \in {mode, vref, vrefInt, value, dev, offset} \/ vrefInt = 0 THEN NaN
    ELSE Round2(Add(Mul(Mul(Mul(Mul(Frac(33, 10), Frac(vref, vrefInt)), Frac(Scale(mode), 1)),
                            Frac(value, 4096)),
                        Add(Frac(1, 1), Frac(dev, 10000))),
                    Frac(offset, 1000)))

\* The register pair holding deviation and offset (Board.js:359-363).
CalRegister(mode, prefix) ==
    (IF mode # 1 THEN 1020 ELSE 1022) + (IF prefix = "AO" THEN 0 ELSE 5)

\* The key storeAnalogueState looks up: getState(id) with the bare `id` (Board.js:382).
LookupKey(prefix, group, id) == NumKey(id)
\* The key storeAnalogueState stores under: `${prefix}${group}.${id}` (Board.js:384).
StoreKey(prefix, group, id) == Key(prefix, group, id)

\* The last .then of the chain (Board.js:373-389) applied to the store.
StoreCalibrated(st, prefix, group, id, result) ==
    LET currentValue == getState(st, LookupKey(prefix, group, id))
    IN  IF StrictNeq(currentValue, result)
        THEN [state |-> Put(st, StoreKey(prefix, group, id), result),
              emits |-> IF HadValue(currentValue)
                        THEN <<<<NumKey(id), [t |-> "number", of |-> result]>>>>
                        ELSE <<>>,
              heard |-> IF HadValue(currentValue)
                        THEN <<getState(Put(st, StoreKey(prefix, group, id), result), NumKey(id))>>
                        ELSE <<>>]
        ELSE [state |-> st, emits |-> <<>>, heard |-> <<>>]

\* storeAnalogueState(prefix, 1, id, value) up to its first read (Board.js:321-331).
NewChain(prefix, id, value) ==
    [prefix |-> prefix, id |-> id, value |-> value, stage |-> "mode",
     mode |-> 0, vref |-> 0, vrefInt |-> 0]

Reg(address) == Rd("reg", address)

\* .then of the AO/AI raw read (Board.js:447-450): two chains start.
RawOk(data) ==
    /\ ~crashed /\ reads[Rd("raw", 1)] > 0
    /\ Len(chains) + 2 <= MaxChains
    /\ chains' = chains \o <<NewChain("AO", 1, data[1]), NewChain("AI", 1, data[2])>>
    /\ reads' = Done(Rd("raw", 1))
    /\ issued' = <<Reg(1019), Reg(1019)>>
    /\ step' = Step("rawOk", NoKey, 1, data)
    /\ emits' = <<>> /\ heard' = <<>> /\ writes' = <<>> /\ raised' = "none"
    /\ UNCHANGED <<cfgVars, lastWrite, connected, crashed, discovery, groups, state, counter, timers, promise, wcount>>

Without(seq, n) == SubSeq(seq, 1, n - 1) \o SubSeq(seq, n + 1, Len(seq))

\* The position of a chain: which of its four reads is outstanding.
StageNo(stage) == CASE stage = "mode" -> 1 [] stage = "vref" -> 2
                    [] stage = "vrefInt" -> 3 [] stage = "cal" -> 4

\* The .then that receives `data` of chain n runs to its end (Board.js:332-389):
\* it keeps what it read and issues the next read, or computes and stores.
ChainAdvance(n, data) ==
    LET c == chains[n] IN
    CASE c.stage = "mode" ->
           /\ chains' = [chains EXCEPT ![n] = [c EXCEPT !.mode = data[1], !.stage = "vref"]]
           /\ issued' = <<Reg(1009)>>
           /\ emits' = <<>> /\ heard' = <<>> /\ UNCHANGED state
      [] c.stage = "vref" ->
           /\ chains' = [chains EXCEPT ![n] = [c EXCEPT !.vref = data[1], !.stage = "vrefInt"]]
           /\ issued' = <<Reg(5)>>
           /\ emits' = <<>> /\ heard' = <<>> /\ UNCHANGED state
      [] c.stage = "vrefInt" ->
           /\ chains' = [chains EXCEPT ![n] = [c EXCEPT !.vrefInt = data[1], !.stage = "cal"]]
           /\ issued' = <<Reg(CalRegister(c.mode, c.prefix))>>
           /\ emits' = <<>> /\ heard' = <<>> /\ UNCHANGED state
      [] c.stage = "cal" ->
           /\ Len(data) = 2
           /\ LET r == StoreCalibrated(state, c.prefix, 1, c.id,
                           Calibrated(c.mode, c.vref, c.vrefInt, c.value, data[1], data[2]))
              IN  state' = r.state /\ emits' = r.emits /\ heard' = Heard(r)
           /\ chains' = Without(chains, n)
           /\ issued' = <<>>

\* The outstanding read of chain n is answered with data (Board.js:332-389).
ChainOk(n, data) ==
    /\ ~crashed /\ n \in 1..Len(chains)
    /\ step' = Step("chainOk", Key(chains[n].prefix, 1, chains[n].id), n, data)
    /\ ChainAdvance(n, data)
    /\ writes' = <<>> /\ raised' = "none"
    /\ UNCHANGED <<cfgVars, lastWrite, connected, crashed, discovery, groups, counter, reads, timers, promise, wcount>>

\* A .then that is handed undefined carries on with values that are no numbers.
ThenThrowsNever(data) == FALSE

\* `data.data[0]` throws a TypeError when data is undefined, which is what the
\* .catch before a .then resolves to (Board.js:344, 357, 374).
ThenThrows(data) == data = Undefined

\* The outstanding read of chain n is rejected: the .catch after it logs and
\* resolves to undefined, every later .then throws on `data.data` before it
\* issues or stores anything, and the .catch handlers after them, the last one
\* included, swallow that (Board.js:337-396). `data` of the step is the number of
\* the read that failed.
ChainFail(n) ==
    /\ ~crashed /\ n \in 1..Len(chains)
    /\ step' = Step("chainFail", Key(chains[n].prefix, 1, chains[n].id), n, <<StageNo(chains[n].stage)>>)
    /\ IF ThenThrows(Undefined)
       THEN /\ chains' = Without(chains, n)
            /\ emits' = <<>> /\ heard' = <<>> /\ issued' = <<>>
            /\ UNCHANGED state
       ELSE ChainAdvance(n, <<NaN, NaN>>)
    /\ writes' = <<>> /\ raised' = "none"
    /\ UNCHANGED <<cfgVars, lastWrite, connected, crashed, discovery, groups, counter, reads, timers, promise, wcount>>

\* ------------------------------------------------------- specifications
\* Capability discovery, answered from the words in caps.
Lifecycle(caps) ==
    \/ Connect
    \/ \E i \in 0..1, w \in caps : DiscoverOk(i, w)
    \/ \E i \in 0..1 : DiscoverFail(i)

\* The state poll; the digital reads are answered from didos and leds.
Digital(didos, leds) ==
    \/ StateTick
    \/ \E g \in 1..2, d \in didos : DiDoOk(g, d)
    \/ \E w \in leds : LedOk(w)
    \/ \E k \in ReadKinds : ReadFail(k)

\* The analogue reads, answered from raws and, per stage of a chain, from cal.
Analog(raws, cal) ==
    \/ \E d \in raws : RawOk(d)
    \/ \E n \in 1..Len(chains) : \E d \in cal[chains[n].stage] : ChainOk(n, d)
    \/ \E n \in 1..Len(chains) : ChainFail(n)

\* Calls of set() on the ids in ids.
Sets(ids) == \E id \in ids, v \in SetValues : Set(id, v)

\* Calls of getState() on the ids in ids.
Gets(ids) == \E id \in ids : GetState(id)

\* The verification timers and the promises of the writes.
RetryWithin(most) ==
    \/ \E t \in timers : RetryTimer(t)
    \/ \E c \in 1..most, o \in {"resolved", "rejected"} : WriteSettle(c, o)

Retry == RetryWithin(MaxSets)

DI11 == Key("DI", 1, 1)
DO11 == Key("DO", 1, 1)
DO19 == Key("DO", 1, 9)
DO22 == Key("DO", 2, 2)
LED12 == Key("LED", 1, 2)
AI11 == Key("AI", 1, 1)
AO11 == Key("AO", 1, 1)

\* The main board with one group and one answer per register: ids of every type
\* become known, and the API is called on one id of each type and on 'DO1.9',
\* which stays unknown.
OneCal == [mode |-> {<<0>>}, vref |-> {<<10000>>}, vrefInt |-> {<<10000>>}, cal |-> {<<0, 0>>}]
ApiIds == {DI11, DO11, AI11, AO11, DO19}
Next ==
    \/ Lifecycle({1026})
    \/ Digital({<<1, 3>>}, {2})
    \/ Analog({<<2048, 2048>>}, OneCal)
    \/ Sets(ApiIds)
    \/ Gets(ApiIds)

Spec == InitWith({0}, {1}) /\ [][Next]_vars

\* The digital side of the state poll with several answers per register.
NextPoll == Lifecycle(CapWords) \/ Digital(DiDoData, LedWords)

SpecPoll == Init /\ [][NextPoll]_vars

\* One group; an output and a LED are written, verified and written again while
\* the poll keeps changing what the verification reads.
NextRetry ==
    \/ Lifecycle({1026})
    \/ Digital({<<0, 0>>, <<1, 3>>}, {0, 2})
    \/ Sets({DO11, LED12})
    \/ Retry

SpecRetry == InitWith(BoardIds, {1}) /\ [][NextRetry]_vars

\* The same, with every pending setTimeout callback run in the end, as the event
\* loop does.
SpecRetryFair == SpecRetry /\ WF_vars(\E t \in timers : RetryTimer(t))

\* Boards of one and of two groups; set() is called on outputs of both groups, on
\* an input, and on ids that are not or not yet known.
NextSet ==
    \/ Lifecycle({1026})
    \/ Digital({<<1, 3>>}, {2})
    \/ Sets({DO11, DO22, DI11, DO19})

SpecSet == InitWith({0}, GroupCounts) /\ [][NextSet]_vars

\* The analogue side of the state poll with several answers per register.
Cals == [mode |-> {<<0>>, <<1>>}, vref |-> {<<10000>>}, vrefInt |-> {<<10000>>},
         cal |-> {<<0, 0>>}]
NextAnalog ==
    \/ Lifecycle({1026})
    \/ StateTick
    \/ \E k \in ReadKinds : ReadFail(k)
    \/ Analog({<<2048, 2048>>, <<2048, 4095>>}, Cals)

SpecAnalog == InitWith({0}, {1}) /\ [][NextAnalog]_vars

\* ------------------------------------------------- decoding, on its own
\* Register words the decoders are applied to: the low and the high end of the
\* 16-bit range, every word whose two bytes are equal, and every single bit.
DecWords == {w \in 0..65535 : \/ w < 64
                              \/ w > 65535 - 64
                              \/ w % 257 = 0
                              \/ w \in {1026, 4353}
                              \/ \E k \in 0..15 : w = 2 ^ k}

\* A board whose connect callback has run, about to handle one answer `word`;
\* `len` is the length the digital decoder is called with.
InitDecode ==
    /\ boardId \in BoardIds
    /\ nGroups = 2
    /\ connected = TRUE
    /\ crashed = FALSE
    /\ discovery = {0, 1}
    /\ groups = [i \in {} |-> 0]
    /\ state = EmptyStore
    /\ counter = EmptyStore
    /\ reads = [k \in ReadKinds |-> 0]
    /\ chains = <<>>
    /\ timers = {}
    /\ promise = <<>>
    /\ wcount = <<>>
    /\ \E word \in DecWords, len \in 0..16 : step = Step("input", NoKey, len, <<word>>)
    /\ emits = <<>>
    /\ heard = <<>>
    /\ writes = <<>>
    /\ issued = <<>>
    /\ raised = "none"
    /\ lastWrite = EmptyStore

\* storeDigitalState('DI1', word, len) on the empty store.
Decode ==
    /\ step.op = "input"
    /\ LET a == storeDigitalState([state |-> state, emits |-> <<>>], "DI", 1, step.data[1], step.val)
       IN  state' = a.state /\ emits' = a.emits /\ heard' = Heard(a)
    /\ step' = Step("decode", NoKey, step.val, step.data)
    /\ writes' = <<>> /\ issued' = <<>> /\ raised' = "none"
    /\ UNCHANGED <<cfgVars, lastWrite, connected, crashed, discovery, groups, counter, reads, chains,
                   timers, promise, wcount>>

NextDecode ==
    \/ Decode
    \/ \E i \in 0..1 : step.op = "input" /\ DiscoverOk(i, step.data[1])

SpecDecode == InitDecode /\ [][NextDecode]_vars

\* --------------------------------------------------- calibration passes
\* Answers of the registers a calibration chain reads: voltage, current and
\* resistance mode, one reference voltage, no correction and a correction.
CalAnswers == [mode |-> {<<0>>, <<1>>, <<3>>}, vref |-> {<<10000>>},
               vrefInt |-> {<<10000>>}, cal |-> {<<0, 0>>, <<100, 10>>}]

NextCalib ==
    \/ Lifecycle({1026})
    \/ StateTick
    \/ \E k \in {Rd("dido", 1), Rd("led", 1), Rd("raw", 1)} : ReadFail(k)
    \/ Analog({<<2048, 4095>>}, CalAnswers)

SpecCalib == InitWith({0}, {1}) /\ [][NextCalib]_vars

\* ------------------------------------------------------ overtaking ticks
\* The state poll of the main board where the interval may fire again before the
\* reads of the tick before are answered.
NextOverlap ==
    \/ Lifecycle({1026})
    \/ StateTickWithin(MaxOverlap)
    \/ DiDoOk(1, <<1, 3>>)
    \/ LedOk(2)
    \/ \E k \in {Rd("dido", 1), Rd("led", 1), Rd("raw", 1)} : ReadFail(k)
    \/ Analog({<<2048, 2048>>}, OneCal)

SpecOverlap == InitWith({0}, {1}) /\ [][NextOverlap]_vars

\* ------------------------------------------------------- everything at once
\* The main board with two inputs and one output: both polls run and fail, an
\* output is written and the write is verified and repeated.
NextAll ==
    \/ Lifecycle({513})
    \/ Digital({<<0, 0>>, <<1, 1>>}, {2})
    \/ CountTick
    \/ \E d \in {<<100, 5, 0, 0>>, <<0, 0, 0, 5>>} : CountOk(1, d)
    \/ Sets({DO11})
    \/ Retry

SpecAll == InitWith({0}, {1}) /\ [][NextAll]_vars

\* ------------------------------------------------- two sets of one output
\* The word the DI/DO poll reads for the outputs of group 1 when the board has
\* applied every write: bit 0 is the value last written to coil 0, and 0 before.
PolledOutputs == IF 0 \in DOMAIN lastWrite THEN lastWrite[0] ELSE 0

\* The main board with one output whose writes are all applied and whose DI/DO
\* poll is always answered, with what the board holds; set('DO1.1', 1) is called
\* and then set('DO1.1', 0). The poll being ten times as frequent as the earliest
\* check, a check finds the store refreshed since the last write, unless it runs
\* right after the check of the same attempt of the other chain, the two calls
\* of set() having been made one right after the other; the checks run in the
\* order of their times, by attempt and then by call.
NextRivals ==
    \/ Lifecycle({513})
    \/ StateTick
    \/ DiDoOk(1, <<0, PolledOutputs>>)
    \/ \E k \in {Rd("led", 1), Rd("raw", 1)} : ReadFail(k)
    \/ (Len(wcount) = 0 /\ SetWithin(MaxRivals, DO11, 1))
    \/ (Len(wcount) = 1 /\ SetWithin(MaxRivals, DO11, 0))
    \/ \E t \in timers :
          /\ \/ getState(state, DO11) = PolledOutputs
             \/ (step.op = "retryTimer" /\ step.data[1] # t.chain /\ step.data[2] = t.retries)
          /\ \A u \in timers :
                u.retries > t.retries \/ (u.retries = t.retries /\ u.chain >= t.chain)
          /\ RetryTimer(t)
    \/ \E c \in 1..MaxRivals : WriteSettle(c, "resolved")

SpecRivals == InitWith({0}, {1}) /\ [][NextRivals]_vars

\* ------------------------------------------------------- the counter poll
\* Words a counter register answers with.
CountWords == {0, 5, 100}

\* The answers to a counter read of 2 * n registers.
CountData(n) == [1..(2 * n) -> CountWords]

DI12 == Key("DI", 1, 2)
DI21 == Key("DI", 2, 1)

\* Groups of two digital inputs; the counter poll runs and getCount is called.
Counting ==
    \/ CountTick
    \/ \E g \in 1..2 : reads[Rd("count", g)] > 0 /\ \E d \in CountData(groups[g - 1].di) : CountOk(g, d)
    \/ \E k \in {Rd("count", 1), Rd("count", 2)} : ReadFail(k)
    \/ \E id \in {DI11, DI12, DI21} : GetCount(id)

NextCount == Lifecycle({513}) \/ Counting

SpecCount == InitWith({0}, GroupCounts) /\ [][NextCount]_vars

\* ------------------------------------------------------------- the claims
\* Bit (i - 1) of the word w, for i in 1..16.
BitOf(w, i) == (w \div (2 ^ (i - 1))) % 2

RECURSIVE Encode(_, _, _, _)
\* The number whose bit (i - 1) is the value stored under prefix+group.i, i in 1..n.
Encode(st, prefix, group, n) ==
    IF n = 0 THEN 0
    ELSE st[Key(prefix, group, n)] * (2 ^ (n - 1)) + Encode(st, prefix, group, n - 1)

\* C9: storeDigitalState(prefix, w, L) with L <= 16 stores bit (i - 1) of w under
\* prefix.i for every i in 1..L and nothing else, and re-encoding the stored bits
\* gives w mod 2^L.
C9_DecodeRoundTrip ==
    step.op = "decode" =>
        LET w == step.data[1]
            L == step.val
        IN  /\ DOMAIN state = {Key("DI", 1, i) : i \in 1..L}
            /\ \A i \in 1..L : state[Key("DI", 1, i)] = BitOf(w, i)
            /\ Encode(state, "DI", 1, L) = w % (2 ^ L)

\* A word with its highest bit set has been decoded at full length.
C9_Witness ==
    /\ step.op = "decode" /\ step.val = 16 /\ step.data[1] = 65534
    /\ state[Key("DI", 1, 16)] = 1 /\ state[Key("DI", 1, 1)] = 0

\* C10 as claimed: the digital-input count of a discovered group is the low byte
\* of its capability word and the digital-output count the high byte.
C10_Claimed ==
    step.op = "discoverOk" =>
        /\ groups[step.val].di = step.data[1] % 256
        /\ groups[step.val].do = step.data[1] \div 256

\* C10 amended: the digital-input count of a discovered group is the high byte of
\* its capability word and the digital-output count the low byte; the word
\* 0b0000010000000010 gives 4 inputs and 2 outputs.
C10_CountsFromBytes ==
    step.op = "discoverOk" =>
        /\ groups[step.val].di = step.data[1] \div 256
        /\ groups[step.val].do = step.data[1] % 256
        /\ step.data[1] = 1026 => groups[step.val].di = 4 /\ groups[step.val].do = 2

\* The word 0b0000010000000010 has been decoded into a group.
C10_Witness ==
    /\ step.op = "discoverOk" /\ step.data[1] = 1026
    /\ groups[step.val].di = 4 /\ groups[step.val].do = 2

\* C1: the retry chain started by one call of set() on a known DO or LED id issues
\* at most 6 writeCoil calls, whatever polls, read answers, settled writes and
\* timers come in between; after the sixth no verification is pending, and no
\* step of the chain throws or emits anything.
C1_AtMostSixWrites ==
    /\ \A c \in 1..Len(wcount) :
          /\ wcount[c] <= 6
          /\ wcount[c] = 6 => ~ \E t \in timers : t.chain = c
    /\ step.op \in {"retryTimer", "writeSettle"} => raised = "none" /\ emits = <<>>
    /\ (step.op = "set" /\ writes # <<>>) => raised = "none" /\ emits = <<>>

\* The fifth verification has just issued the sixth write of a chain.
C1_Witness ==
    /\ step.op = "retryTimer" /\ step.data[2] = 4
    /\ Len(writes) = 1
    /\ wcount[step.data[1]] = 6

\* a === b, the negation of !==.
SameValue(a, b) == a = b /\ a # NaN

\* What storeDigitalState reads for index i of the word w: bit (i - 1), and no
\* number where the 16 digits have run out.
Decoded(w, i) == IF i <= 16 THEN BitOf(w, i) ELSE NaN

\* The 'update' events for id among the events of the step.
UpdatesOf(id) == {j \in 1..Len(emits') : emits'[j][1] = id}

\* The step treats the sample v of id as the change notifier should.
C2_Sampled(id, v) ==
    IF id \notin DOMAIN state
    THEN UpdatesOf(id) = {} /\ state'[id] = v
    ELSE IF SameValue(state[id], v)
    THEN UpdatesOf(id) = {} /\ state'[id] = state[id]
    ELSE /\ Cardinality(UpdatesOf(id)) = 1
         /\ \A j \in UpdatesOf(id) : emits'[j] = <<id, ToStr(v)>>
         /\ state'[id] = v

PassEnds(n) == step'.op = "chainOk" /\ step'.val = n /\ n \in 1..Len(chains) /\ chains[n].stage = "cal"

\* C3 as claimed: a calibration pass whose result differs from the value stored
\* for AO1.1 / AI1.1 stores it and emits one 'update' with that id and the result;
\* a pass with the stored result, and the first pass, emit nothing.
C3_AnalogNotify ==
    [][\A n \in 1..MaxChains : PassEnds(n) =>
          LET id == Key(chains[n].prefix, 1, chains[n].id)
              result == Calibrated(chains[n].mode, chains[n].vref, chains[n].vrefInt,
                                   chains[n].value, step'.data[1], step'.data[2])
          IN  IF id \notin DOMAIN state THEN emits' = <<>>
              ELSE IF state[id] = result THEN emits' = <<>>
              ELSE /\ state'[id] = result
                   /\ emits' = <<(<<id, [t |-> "number", of |-> result]>>)>>
      ]_vars

\* C4: set() on a known id of type DI or AI changes no entry of either store,
\* issues no write, schedules no verification and does not throw.
C4_InputsNotSet ==
    [][(/\ step'.op = "set"
        /\ step'.key.prefix \in {"DI", "AI"}
        /\ step'.key \in DOMAIN state) =>
           /\ writes' = <<>>
           /\ raised' = "none"
           /\ emits' = <<>>
           /\ UNCHANGED <<state, counter, timers, promise, wcount>>
      ]_vars

\* set() has been called on the analogue input after a calibration pass stored it.
C4_Witness ==
    /\ step.op = "set" /\ step.key = AI11 /\ AI11 \in DOMAIN state
    /\ DI11 \in DOMAIN state
    /\ writes = <<>> /\ raised = "none"

\* C5: set() on a known id DO<g>.<n> issues exactly one writeCoil, at the address
\* (g - 1) * 100 + (n - 1) and with the value given.
C5_OutputCoil ==
    [][(/\ step'.op = "set"
        /\ step'.key.prefix = "DO"
        /\ step'.key \in DOMAIN state) =>
           writes' = <<[fn |-> "writeCoil",
                        addr |-> (step'.key.group - 1) * 100 + (step'.key.num - 1),
                        value |-> step'.val]>>
      ]_vars

\* set('DO2.2', 1) has written coil 101.
C5_Witness ==
    /\ step.op = "set" /\ step.key = DO22 /\ step.val = 1
    /\ writes = <<[fn |-> "writeCoil", addr |-> 101, value |-> 1]>>

\* C6 as claimed: set() on a known AO id issues exactly one register write and
\* schedules the verification of it.
C6_AnalogOutputWrite ==
    [][(/\ step'.op = "set"
        /\ step'.key.prefix = "AO"
        /\ step'.key \in DOMAIN state) =>
           /\ Len(writes') = 1
           /\ writes'[1].fn = "writeRegister"
           /\ \E t \in timers' \ timers : t.id = step'.key /\ t.value = step'.val
      ]_vars

\* C7: set() on an id without an entry in the store throws the unknown-id error,
\* and then issues no write, schedules no verification and changes nothing.
C7_UnknownIdThrows ==
    [][(step'.op = "set" /\ step'.key \notin DOMAIN state) =>
           /\ raised' = "SyntaxError"
           /\ writes' = <<>>
           /\ emits' = <<>>
           /\ UNCHANGED <<state, counter, groups, timers, promise, wcount, reads, chains>>
      ]_vars

\* set() has thrown on an id no poll produces, on a board whose outputs are known.
C7_Witness ==
    /\ step.op = "set" /\ step.key = DO19 /\ raised = "SyntaxError"
    /\ DO11 \in DOMAIN state /\ DO19 \notin DOMAIN state

\* C8 as claimed: getState() on an id without an entry throws the unknown-id error.
C8_GetStateThrows ==
    [][(step'.op = "getState" /\ step'.key \notin DOMAIN state) =>
           raised' = "SyntaxError"
      ]_vars

\* C8 amended: validate runs before every set only; getState() on an id without
\* an entry returns undefined, throws nothing and changes nothing, while set()
\* on the same id throws the unknown-id error.
C8_GetStateReturnsUndefined ==
    [][/\ (step'.op = "getState" /\ step'.key \notin DOMAIN state) =>
              /\ raised' = "none"
              /\ step'.val = Undefined
              /\ UNCHANGED <<state, counter, timers, wcount>>
       /\ (step'.op = "getState" /\ step'.key \in DOMAIN state) =>
              /\ raised' = "none"
              /\ step'.val = state[step'.key]
       /\ (step'.op = "set" /\ step'.key \notin DOMAIN state) =>
              raised' = "SyntaxError"
      ]_vars

\* getState() has returned undefined for an id no poll produces, on a board whose
\* outputs are known.
C8_Witness ==
    /\ step.op = "getState" /\ step.key = DO19 /\ step.val = Undefined
    /\ raised = "none" /\ DO11 \in DOMAIN state

\* C11: after a successful counter refresh of a group with n digital inputs, the
\* counter of 'DI<group>.<j>', for every j in 1..n, is the sum of the words at
\* positions 2(j-1) and 2(j-1)+1 of the answer, and getCount returns it; a call
\* of getCount returns the stored counter.
C11_CounterSum ==
    [][
        /\ step'.op = "countOk" =>
            LET g == step'.val
                d == step'.data
            IN  \A j \in 1..groups[g - 1].di :
                    getCount(counter', Key("DI", g, j)) = d[2 * (j - 1) + 1] + d[2 * (j - 1) + 2]
        /\ step'.op = "getCount" => step'.val = getCount(counter, step'.key)
    ]_vars

\* A refresh answered with the words (100, 5) for the second input has made its
\* counter 105, and getCount has returned it.
C11_Witness ==
    /\ step.op = "getCount" /\ step.key = DI12 /\ step.val = 105
    /\ getCount(counter, DI11) = 0

\* 3.3*(vref/vrefInt)*scale*(raw/4096)*(1+deviation/10000) + offset/1000 as an
\* exact fraction, with scale 3 for mode 0, 10 for mode 1 and 1 otherwise.
C12_Formula(mode, vref, vrefInt, raw, deviation, offset) ==
    LET scale == CASE mode = 0 -> 3 [] mode = 1 -> 10 [] OTHER -> 1
        volts == Mul(Mul(Frac(33 * scale, 10), Frac(vref, vrefInt)), Frac(raw, 4096))
    IN  Add(Mul(volts, Frac(10000 + deviation, 10000)), Frac(offset, 1000))

\* h hundredths is x rounded to two decimals: it lies within half a hundredth of x.
C12_Rounds(h, x) ==
    LET y == Mul(x, Frac(100, 1))
        diff == y.n - h * y.d
    IN  2 * (IF diff < 0 THEN -diff ELSE diff) <= y.d

\* C12: when the fourth read of a calibration chain of channel 1 of group 1 is
\* answered, all four reads having succeeded, the value stored under the
\* canonical id is the formula's value rounded to two decimals; for vref = 10000,
\* vrefInt = 10000, mode 0, no deviation, no offset and raw 2048 it is 4.95.
C12_Calibration ==
    [][\A n \in 1..Len(chains) :
           (step'.op = "chainOk" /\ step'.val = n /\ chains[n].stage = "cal") =>
               LET c == chains[n]
                   d == step'.data
                   key == Key(c.prefix, 1, c.id)
               IN  /\ key \in DOMAIN state'
                   /\ C12_Rounds(state'[key], C12_Formula(c.mode, c.vref, c.vrefInt, c.value, d[1], d[2]))
                   /\ (c.mode = 0 /\ c.vref = 10000 /\ c.vrefInt = 10000 /\ c.value = 2048 /\ d = <<0, 0>>)
                          => state'[key] = 495
      ]_vars

\* A pass in current mode with the corrections and the raw value 4095 has stored
\* 33.33 for 'AI1.1', and the documented pass 4.95 for 'AO1.1'.
C12_Witness ==
    /\ step.op = "chainOk" /\ step.key = AI11 /\ step.data = <<100, 10>>
    /\ AI11 \in DOMAIN state /\ state[AI11] = 3333
    /\ AO11 \in DOMAIN state /\ state[AO11] = 495

\* C13: when one of the four dependent reads of a calibration chain fails, no
\* later read of the chain is issued in that pass, the entry of the analogue id
\* keeps its value or stays absent, nothing is emitted and nothing is raised.
C13_FailedReadAborts ==
    [][step'.op = "chainFail" =>
           LET n == step'.val
               key == Key(chains[n].prefix, 1, chains[n].id)
           IN  /\ step'.data[1] \in 1..4
               /\ issued' = <<>>
               /\ chains' = Without(chains, n)
               /\ getState(state', key) = getState(state, key)
               /\ state' = state
               /\ emits' = <<>>
               /\ raised' = "none" /\ ~crashed'
      ]_vars

\* The read of the offset/deviation pair of 'AI1.1' has failed while an earlier
\* pass had stored a value for it, and the chain is gone.
C13_Witness ==
    /\ step.op = "chainFail" /\ step.key = AI11 /\ step.data = <<4>>
    /\ AI11 \in DOMAIN state /\ state[AI11] = 990
    /\ \A n \in 1..Len(chains) : chains[n].prefix # "AI"

\* C14: when the DI/DO read of a group fails, every entry of the store keeps its
\* value, nothing is emitted, no read is issued by the handler, the other
\* outstanding reads stay outstanding, and a tick that follows issues the DI/DO
\* read of that group, as every tick does for every group it visits.
C14_FailedGroupRead ==
    [][
        /\ (step'.op = "readFail" /\ step'.key.prefix = "dido") =>
              /\ state' = state
              /\ emits' = <<>>
              /\ issued' = <<>>
              /\ raised' = "none" /\ ~crashed'
              /\ \A k \in ReadKinds \ {Rd("dido", step'.key.group)} : reads'[k] = reads[k]
              /\ reads'[Rd("dido", step'.key.group)] = reads[Rd("dido", step'.key.group)] - 1
        /\ (step.op = "readFail" /\ step.key.prefix = "dido" /\ step'.op = "stateTick") =>
              Count(issued', Rd("dido", step.key.group)) = 1
        /\ step'.op = "stateTick" =>
              \A i \in Visited(groups) : Count(issued', Rd("dido", i + 1)) = 1
    ]_vars

\* The DI/DO read of group 1 has failed: the values of group 1 are still there and
\* the read of group 2 issued by the same tick is still outstanding.
C14_Witness ==
    /\ step.op = "readFail" /\ step.key = Key("dido", 1, 0)
    /\ Key("DI", 1, 1) \in DOMAIN state /\ state[Key("DI", 1, 1)] = 1
    /\ reads[Rd("dido", 2)] = 1

\* C15: whichever discovery reads have failed or are still outstanding, a
\* state-refresh or counter-refresh tick completes without raising.
C15_TicksDoNotRaise ==
    step.op \in {"stateTick", "countTick"} => (raised = "none" /\ ~crashed)

\* C16: set(), a write attempt, the settling of a write and a verification check
\* change no entry of the state store or of the counters and emit nothing, so
\* getState(id) returns after them what it returned before; a rejected write and
\* an exhausted chain raise nothing, and set() on a known id raises nothing.
C16_WritesLeaveStore ==
    [][step'.op \in {"set", "retryTimer", "writeSettle"} =>
           /\ state' = state
           /\ counter' = counter
           /\ emits' = <<>>
           /\ getState(state', step'.key) = getState(state, step'.key)
           /\ step'.op \in {"retryTimer", "writeSettle"} => raised' = "none"
           /\ (step'.op = "set" /\ step'.key \in DOMAIN state) => raised' = "none"
           /\ ~crashed'
      ]_vars

\* The sixth and last write of a chain that wants 'DO1.1' to be 1 has been
\* rejected: the store still holds the polled 0 and nothing was raised.
C16_Witness ==
    /\ step.op = "writeSettle" /\ raised = "none"
    /\ Len(wcount) >= 1 /\ wcount[1] = 6 /\ promise[1] = "rejected" /\ timers = {}
    /\ DO11 \in DOMAIN state /\ state[DO11] = 0

\* C17: set() on a known id 'LED1.<n>' issues exactly one writeCoil, at the coil
\* group1.do + group1.di + (n - 1) of the counts discovered for group 1, and
\* starts a verification chain as a write of a digital output does: one check,
\* 100 ms later, for the attempt with no retry.
C17_LedCoil ==
    [][(step'.op = "set" /\ step'.key.prefix = "LED" /\ step'.key.group = 1
            /\ step'.key \in DOMAIN state) =>
           LET coil == groups[0].do + groups[0].di + (step'.key.num - 1)
               c == Len(wcount) + 1
           IN  /\ writes' = <<WriteCoilCall(coil, step'.val)>>
               /\ (groups[0].do = 2 /\ groups[0].di = 4 /\ step'.key.num = 2) => writes'[1].addr = 7
               /\ Len(wcount') = c /\ wcount'[c] = 1
               /\ timers' = timers \cup {[chain |-> c, coilId |-> coil, id |-> step'.key,
                                          value |-> step'.val, retries |-> 0, delay |-> 100]}
               /\ raised' = "none"
      ]_vars

\* set('LED1.2', 1) on a board with 4 inputs and 2 outputs in group 1 has written
\* coil 7 and its check is pending.
C17_Witness ==
    /\ step.op = "set" /\ step.key = LED12 /\ step.val = 1
    /\ 0 \in DOMAIN groups /\ groups[0].di = 4 /\ groups[0].do = 2
    /\ writes = <<WriteCoilCall(7, 1)>>
    /\ \E t \in timers : t.id = LED12 /\ t.retries = 0

\* The checks the step has scheduled, and the checks it has run.
C18_Scheduled == timers' \ timers
C18_Fired == timers \ timers'

\* C18: a write attempt with retry count r in 0..4 schedules exactly one check,
\* 100 * (r + 1) ms later, and the attempt with r = 5 schedules none; the
\* settling of the write, either way, neither schedules nor cancels a check.
C18_OneCheckPerAttempt ==
    [][
        /\ (step'.op = "set" /\ writes' # <<>>) =>
              /\ Cardinality(C18_Scheduled) = 1 /\ C18_Fired = {}
              /\ \A t \in C18_Scheduled : t.retries = 0 /\ t.delay = 100 /\ t.id = step'.key
        /\ (step'.op = "retryTimer" /\ writes' # <<>>) =>
              LET r == step'.data[2] + 1
              IN  /\ r \in 1..5
                  /\ Cardinality(C18_Scheduled) = (IF r <= 4 THEN 1 ELSE 0)
                  /\ \A t \in C18_Scheduled :
                         /\ t.retries = r /\ t.delay = 100 * (r + 1)
                         /\ t.chain = step'.data[1] /\ t.id = step'.key /\ t.value = step'.val
        /\ writes' = <<>> => C18_Scheduled = {}
        /\ step'.op = "writeSettle" => timers' = timers
    ]_vars

\* The fifth attempt (r = 4) of a chain has been rejected and its check, 500 ms
\* after the attempt, is still scheduled.
C18_Witness ==
    /\ step.op = "writeSettle" /\ step.val = 1 /\ promise[1] = "rejected"
    /\ wcount[1] = 5
    /\ \E t \in timers : t.chain = 1 /\ t.retries = 4 /\ t.delay = 500

\* The timers of chain c among ts.
C19_TimersOf(ts, c) == {t \in ts : t.chain = c}

\* The check of chain c that runs in the step finds the stored value equal to
\* the desired one (`getState(id) != value` is false).
C19_FoundEqual == ~LooseNeq(getState(state, step'.key), step'.val)

\* A check that finds the value equal ends its chain, and a chain that has ended
\* stays ended whatever the store holds afterwards.
C19_EqualEnds ==
    /\ (step'.op = "retryTimer" /\ C19_FoundEqual) =>
          /\ writes' = <<>>
          /\ wcount' = wcount
          /\ C19_TimersOf(timers', step'.data[1]) = {}
    /\ \A c \in 1..Len(wcount) :
          C19_TimersOf(timers, c) = {} =>
              /\ C19_TimersOf(timers', c) = {}
              /\ wcount'[c] = wcount[c]

\* A check after r retries that finds the value different is followed by exactly
\* one new write, and by exactly one new check when r < bound.
C19_DifferentRepeats(bound) ==
    (step'.op = "retryTimer" /\ ~C19_FoundEqual) =>
        LET c == step'.data[1]
            r == step'.data[2]
        IN  /\ r < 5
            /\ Len(writes') = 1
            /\ wcount'[c] = wcount[c] + 1
            /\ r < bound => Cardinality(C19_TimersOf(timers', c)) = 1
            /\ r < bound => \A t \in C19_TimersOf(timers', c) : t.retries = r + 1

\* C19 as claimed: an equal check ends the chain for good; a different check
\* with fewer than 5 retries made is followed by one new write and one new check.
C19_Claimed == [][C19_EqualEnds /\ C19_DifferentRepeats(5)]_vars

\* C19 amended: an equal check ends the chain for good; a different check is
\* followed by one new write, and by one new check when fewer than 4 retries
\* were made before it; after the write of the fifth retry no check follows.
C19_CheckEndsOrRepeats ==
    [][/\ C19_EqualEnds
       /\ C19_DifferentRepeats(4)
       /\ (step'.op = "retryTimer" /\ ~C19_FoundEqual /\ step'.data[2] = 4) =>
              C19_TimersOf(timers', step'.data[1]) = {}
      ]_vars

\* The check after the third write of a chain that wants 'DO1.1' to be 1 has
\* found 1 in the store: the chain has ended with three writes and no timer.
C19_Witness ==
    /\ step.op = "retryTimer" /\ step.key = DO11 /\ step.val = 1 /\ step.data = <<1, 2>>
    /\ writes = <<>> /\ timers = {}
    /\ wcount[1] = 3 /\ state[DO11] = 1

\* The step ends chain c: its timer was pending and none is pending after it.
C20_Ends(c) == C19_TimersOf(timers, c) # {} /\ C19_TimersOf(timers', c) = {}

\* C20: timers firing in the end, every chain started by set() on a known DO or
\* LED id reaches a state from which on it has no pending timer, and issues no
\* write after that; a chain ends either in a check that finds the desired value
\* or with its sixth write, so a chain whose checks all find a different value
\* issues exactly 6 writes.
C20_ChainsTerminate ==
    /\ \A c \in 1..MaxSets :
          [](Len(wcount) >= c => <>[](C19_TimersOf(timers, c) = {}))
    /\ [][\A c \in 1..Len(wcount) :
              /\ C20_Ends(c) =>
                    \/ (step'.op = "retryTimer" /\ step'.data[1] = c /\ C19_FoundEqual /\ writes' = <<>>)
                    \/ (step'.op = "retryTimer" /\ step'.data[1] = c /\ ~C19_FoundEqual
                            /\ wcount[c] = 5 /\ wcount'[c] = 6)
              /\ C19_TimersOf(timers, c) = {} => wcount'[c] = wcount[c]
              /\ wcount'[c] <= 6
         ]_vars

\* The check after the fifth write of the chain of 'LED1.2' has found a different
\* value: the sixth write is out and the chain has no timer left.
C20_Witness ==
    /\ step.op = "retryTimer" /\ step.key = LED12 /\ step.data = <<1, 4>>
    /\ Len(writes) = 1 /\ wcount[1] = 6 /\ timers = {}

\* The register a calibration chain has its outstanding read on.
C21_RegisterOf(c) ==
    CASE c.stage = "mode" -> 1019
      [] c.stage = "vref" -> 1009
      [] c.stage = "vrefInt" -> 5
      [] c.stage = "cal" -> CalRegister(c.mode, c.prefix)

\* C21: no two reads of the same registers are outstanding together: of no kind
\* of poll read are two outstanding, and no two calibration chains have their
\* outstanding read on the same register.
C21_NoOverlappingReads ==
    /\ \A k \in ReadKinds : reads[k] <= 1
    /\ \A m, n \in 1..Len(chains) :
          m # n => C21_RegisterOf(chains[m]) # C21_RegisterOf(chains[n])

\* C22: no state-refresh or counter-refresh tick runs while a discovery read is
\* outstanding, so every tick finds the final group list.
C22_TicksAfterDiscovery ==
    step.op \in {"stateTick", "countTick"} => discovery = {}

\* The events of a sequence of emits, as a set.
C23_Events(es) == {es[j] : j \in 1..Len(es)}

\* The answers d1 of group 1 and d2 of group 2 handled in this order and in the
\* other one, from the present store.
C23_OneThenTwo(d1, d2) ==
    storeDiDo(storeDiDo([state |-> state, emits |-> <<>>], groups[0], d1), groups[1], d2)
C23_TwoThenOne(d1, d2) ==
    storeDiDo(storeDiDo([state |-> state, emits |-> <<>>], groups[1], d2), groups[0], d1)

\* C23: a tick issues its reads in group order, and while the DI/DO reads of two
\* groups are outstanding, handling their answers in either order gives the same
\* store and the same set of 'update' events.
C23_GroupAnswersCommute ==
    /\ step.op = "stateTick" =>
          \A a, b \in 1..Len(issued) : a < b => issued[a].g <= issued[b].g
    /\ (reads[Rd("dido", 1)] > 0 /\ reads[Rd("dido", 2)] > 0) =>
          \A d1, d2 \in DiDoData :
              /\ C23_OneThenTwo(d1, d2).state = C23_TwoThenOne(d1, d2).state
              /\ C23_Events(C23_OneThenTwo(d1, d2).emits) = C23_Events(C23_TwoThenOne(d1, d2).emits)

\* The answer of group 2 has been handled, with events, while the read of group 1
\* issued by the same tick is still outstanding.
C23_Witness ==
    /\ step.op = "didoOk" /\ step.val = 2 /\ Len(emits) >= 1
    /\ reads[Rd("dido", 1)] = 1
    /\ Key("DI", 1, 1) \in DOMAIN state

\* C24: no step removes an id from the state store or from the counters or makes
\* its entry undefined, so an id that validate accepts is accepted ever after.
C24_StoresOnlyGrow ==
    [][/\ DOMAIN state \subseteq DOMAIN state'
       /\ DOMAIN counter \subseteq DOMAIN counter'
       /\ \A id \in DOMAIN state' : state'[id] # Undefined
       /\ \A id \in DOMAIN counter' : counter'[id] # Undefined
       /\ \A id \in DOMAIN state : ~Unknown(state, id) => ~Unknown(state', id)
      ]_vars

\* A read has failed on a board whose output was polled and written six times
\* over and whose counters were read: the ids are all still known.
C24_Witness ==
    /\ step.op = "readFail"
    /\ Len(wcount) = 1 /\ wcount[1] = 6
    /\ {DO11, DI11, DI12} \subseteq DOMAIN state
    /\ {DI11, DI12} \subseteq DOMAIN counter

\* The capability count of a group for a prefix; undefined where discovery has
\* set none.
C25_CountOf(group, prefix) ==
    CASE prefix = "DI" -> group.di
      [] prefix = "DO" -> group.do
      [] prefix = "LED" -> group.led
      [] prefix = "AI" -> group.ai
      [] prefix = "AO" -> group.ao
      [] OTHER -> Undefined

\* C25: every key of the state store is an id '<PREFIX><group>.<index>' of a
\* discovered group, with the index between 1 and the count the group has for
\* the prefix, whatever the device address of the board.
C25_KeysWithinCapabilities ==
    \A k \in DOMAIN state :
        /\ (k.group - 1) \in DOMAIN groups
        /\ C25_CountOf(groups[k.group - 1], k.prefix) # Undefined
        /\ k.num \in 1..C25_CountOf(groups[k.group - 1], k.prefix)

\* The entries of the ids `prefix` of group g in st are what the word w decodes
\* to: the poll before read w.
C26_Holds(st, prefix, g, count, w) ==
    \A j \in 1..count :
        /\ Key(prefix, g, j) \in DOMAIN st
        /\ st[Key(prefix, g, j)] = Decoded(w, j)

\* C26: whatever counts of 0..255 discovery has produced, the handler of a
\* DI/DO answer leaves only 0 and 1 in the entries of the group, and an answer
\* with the words the poll before has read emits nothing.
C26_DigitalValues ==
    [][step'.op = "didoOk" =>
           LET g == step'.val
               group == groups[g - 1]
           IN  /\ \A k \in DOMAIN state' :
                     (k.prefix \in {"DI", "DO"} /\ k.group = g) => state'[k] \in {0, 1}
               /\ (/\ C26_Holds(state, "DI", g, group.di, step'.data[1])
                   /\ C26_Holds(state, "DO", g, group.do, step'.data[2])) => emits' = <<>>
      ]_vars

\* C27: after set('DO1.1', 1) and then set('DO1.1', 0), with every write applied
\* and the polls answered from the board, once both retry chains have ended the
\* last write issued to coil 0 carries 0, the value of the later call.
C27_LaterSetWins ==
    (Len(wcount) = 2 /\ timers = {}) => lastWrite[0] = 0

\* The coil a chain started by set(id, ...) writes.
C28_CoilOf(id) ==
    IF id.prefix = "LED" THEN groups[0].do + groups[0].di + (id.num - 1)
    ELSE (id.group - 1) * 100 + (id.num - 1)

\* C28: every write of a chain goes to the coil of the chain's id with the
\* chain's value; the attempts of a chain carry the retry counts 0, 1, 2, ...
\* in turn; and a chain has at most one check pending.
C28_ChainKeepsTarget ==
    [][
        /\ (step'.op = "set" /\ writes' # <<>>) =>
              LET c == Len(wcount')
              IN  /\ writes' = <<[fn |-> "writeCoil", addr |-> C28_CoilOf(step'.key), value |-> step'.val]>>
                  /\ wcount'[c] = 1
                  /\ \A t \in C19_TimersOf(timers', c) :
                         t.retries = 0 /\ t.coilId = C28_CoilOf(t.id) /\ t.id = step'.key
                                       /\ t.value = step'.val
        /\ (step'.op = "retryTimer" /\ writes' # <<>>) =>
              LET c == step'.data[1]
                  r == step'.data[2]
              IN  /\ \E t \in C19_TimersOf(timers, c) :
                         /\ t.retries = r /\ t.id = step'.key /\ t.value = step'.val
                         /\ writes' = <<[fn |-> "writeCoil", addr |-> t.coilId, value |-> t.value]>>
                         /\ \A u \in C19_TimersOf(timers', c) :
                                /\ u.retries = r + 1
                                /\ u.coilId = t.coilId /\ u.id = t.id /\ u.value = t.value
                  /\ wcount[c] = r + 1 /\ wcount'[c] = r + 2
        /\ \A c \in 1..Len(wcount') : Cardinality(C19_TimersOf(timers', c)) <= 1
        /\ \A t \in timers' : t.coilId = C28_CoilOf(t.id) /\ t.retries = wcount'[t.chain] - 1
    ]_vars

\* The third retry of the chain that wants 'LED1.2' to be 1 has written coil 7
\* with 1, after polls that read the LED word, and its check is pending.
C28_Witness ==
    /\ step.op = "retryTimer" /\ step.key = LED12 /\ step.data = <<1, 2>>
    /\ writes = <<[fn |-> "writeCoil", addr |-> 7, value |-> 1]>>
    /\ wcount[1] = 4
    /\ \E t \in timers : t.chain = 1 /\ t.retries = 3 /\ t.coilId = 7 /\ t.value = 1
    /\ state[LED12] = 0

====
